---------------------------- MODULE Spec2Model ----------------------------
(***************************************************************************)
(* A model of mold's .tbd (text dylib) reader, src/macho/tapi.cc:          *)
(*   - the YamlNode query helpers (get_vector, get_string_vector,          *)
(*     get_string, contains),                                              *)
(*   - to_tbd, the per-document extraction for one architecture,           *)
(*   - squash, the merge of the text dylibs of one file, its recursive     *)
(*     lambda handle_reexported_libs unfolded into an explicit call stack, *)
(*   - parse, the file-level driver with its two fatal diagnostics.        *)
(***************************************************************************)
EXTENDS Integers, Sequences, FiniteSets, TLC

VARIABLES
  arch,           \* the architecture identifier parse was called with
  contents,       \* mf->get_contents(), a sequence of bytes
  res,            \* which alternative parse_yaml(contents) returned
  nodes,          \* the documents res holds when it is no error
  idx,            \* position of parse's loop over nodes
  vec,            \* parse's vector of text dylibs, the argument of squash
  main,           \* squash: the main text dylib
  map,            \* squash: install name -> text dylib
  external_libs,  \* squash: re-exported libraries not found in the file
  stack,          \* squash: the active calls of handle_reexported_libs
  ret,            \* the text dylib parse returned, <<>> until then
  diag,           \* the fatal diagnostic, <<>> until one is raised
  pc              \* where the run is

vars == <<arch, contents, res, nodes, idx, vec, main, map, external_libs,
          stack, ret, diag, pc>>

---------------------------------------------------------------------------
(* Bounds of the model.                                                    *)

\* longest file contents, in bytes
MaxContents == 3
\* most documents of a file handed to the driver
MaxDocs == 2
\* most text dylibs in a list handed to squash
MaxTbds == 3
\* most members under the key "exports" of an extracted document
MaxMembers == 2
\* Calls of handle_reexported_libs the stack holds before it is exhausted.
\* A walk without a cycle nests at most one call per text dylib of the file.
MaxDepth == MaxDocs + MaxTbds + 1

---------------------------------------------------------------------------
(* YamlNode: a string, a vector of nodes, or a map from string to node.    *)

Str(s) == [kind |-> "str", str |-> s]
Vec(v) == [kind |-> "vec", vec |-> v]
Map(m) == [kind |-> "map", map |-> m]

\* The map node holding the key/value pairs of a set of <<key, node>>, no
\* key twice.
RECURSIVE FnOf(_)
FnOf(pairs) ==
  IF pairs = {} THEN <<>>
  ELSE LET p == CHOOSE q \in pairs : TRUE
       IN (p[1] :> p[2]) @@ FnOf(pairs \ {p})
MkMap(pairs) == Map(FnOf(pairs))

Elems(s) == {s[i] : i \in 1..Len(s)}

\* The sequence f, a function on 1..n, with its members enumerated.
Tuple(f) == f \o <<>>

get_vector(node, key) ==
  IF node.kind = "map"
  THEN IF key \in DOMAIN node.map
       THEN IF node.map[key].kind = "vec" THEN node.map[key].vec ELSE <<>>
       ELSE <<>>
  ELSE <<>>

RECURSIVE StringsOf(_)
StringsOf(v) ==
  IF v = <<>> THEN <<>>
  ELSE (IF Head(v).kind = "str" THEN <<Head(v).str>> ELSE <<>>)
       \o StringsOf(Tail(v))

get_string_vector(node, key) == StringsOf(get_vector(node, key))

\* std::optional<std::string_view>: <<>> or <<the string>>
get_string(node, key) ==
  IF node.kind = "map"
  THEN IF key \in DOMAIN node.map
       THEN IF node.map[key].kind = "str" THEN <<node.map[key].str>> ELSE <<>>
       ELSE <<>>
  ELSE <<>>

contains(v, key) ==
  \E i \in 1..Len(v) : v[i].kind = "str" /\ v[i].str = key

---------------------------------------------------------------------------
(* TextDylib and to_tbd.                                                   *)

\* A default-constructed TextDylib.
TextDylib ==
  [install_name |-> "", reexported_libs |-> <<>>,
   exports |-> <<>>, weak_exports |-> <<>>]

\* save_string(ctx, x + std::string(y))
concat(x, y) == x \o y

\* ObjcClasses with the metaclass pushed before the class.
RECURSIVE ObjcClassesMetaFirst(_)
ObjcClassesMetaFirst(ss) ==
  IF ss = <<>> THEN <<>>
  ELSE <<concat("_OBJC_METACLASS_$_", Head(ss)),
         concat("_OBJC_CLASS_$_", Head(ss))>> \o ObjcClassesMetaFirst(Tail(ss))

RECURSIVE ObjcClasses(_)
ObjcClasses(ss) ==
  IF ss = <<>> THEN <<>>
  ELSE <<concat("_OBJC_CLASS_$_", Head(ss)),
         concat("_OBJC_METACLASS_$_", Head(ss))>> \o ObjcClasses(Tail(ss))

RECURSIVE Prefixed(_, _)
Prefixed(prefix, ss) ==
  IF ss = <<>> THEN <<>>
  ELSE <<concat(prefix, Head(ss))>> \o Prefixed(prefix, Tail(ss))

\* The body of to_tbd's loop for one member whose targets match.
ExportMember(tbd, mem) ==
  [tbd EXCEPT
     !.exports = @ \o get_string_vector(mem, "symbols")
                   \o ObjcClasses(get_string_vector(mem, "objc-classes"))
                   \o Prefixed("_OBJC_EHTYPE_$_",
                               get_string_vector(mem, "objc-eh-types"))
                   \o Prefixed("_OBJC_IVAR_$_",
                               get_string_vector(mem, "objc-ivars")),
     !.weak_exports = @ \o get_string_vector(mem, "weak-symbols")]

\* MemberMatches as it would be if it asked only whether the member names
\* any targets.
MemberMatchesAnyTargets(mem, a) == get_vector(mem, "targets") # <<>>

\* Whether to_tbd takes a member: its own targets hold the architecture.
MemberMatches(mem, a) == contains(get_vector(mem, "targets"), a)

RECURSIVE ExportMembers(_, _, _)
ExportMembers(tbd, mems, a) ==
  IF mems = <<>> THEN tbd
  ELSE ExportMembers(IF MemberMatches(Head(mems), a)
                     THEN ExportMember(tbd, Head(mems)) ELSE tbd,
                     Tail(mems), a)

RECURSIVE ReexportedLibraries(_, _, _)
ReexportedLibraries(tbd, mems, a) ==
  IF mems = <<>> THEN tbd
  ELSE ReexportedLibraries(
         IF MemberMatches(Head(mems), a)
         THEN [tbd EXCEPT !.reexported_libs =
                 @ \o get_string_vector(Head(mems), "libraries")]
         ELSE tbd,
         Tail(mems), a)

\* The keys to_tbd reads symbols from, in the order it reads them.
ExportKeys == <<"exports", "reexports">>

\* std::optional<TextDylib>: <<>> or <<the text dylib>>
to_tbd(node, a) ==
  IF ~contains(get_vector(node, "targets"), a) THEN <<>>
  ELSE LET t1 == IF get_string(node, "install-name") # <<>>
                 THEN [TextDylib EXCEPT
                         !.install_name = get_string(node, "install-name")[1]]
                 ELSE TextDylib
           t2 == ReexportedLibraries(
                   t1, get_vector(node, "reexported-libraries"), a)
           t3 == ExportMembers(t2, get_vector(node, ExportKeys[1]), a)
           t4 == ExportMembers(t3, get_vector(node, ExportKeys[2]), a)
       IN <<t4>>

---------------------------------------------------------------------------
(* squash: the lookup table and the walk over re-exported libraries.       *)

\* MapAssign as map.emplace would do it: an install name already in the
\* map keeps its text dylib.
MapAssignFirst(m, tbd) == m @@ (tbd.install_name :> tbd)

\* map[tbd.install_name] = std::move(tbd)
MapAssign(m, tbd) == (tbd.install_name :> tbd) @@ m

\* for (TextDylib &tbd : tbds.subspan(1)) map[tbd.install_name] = ...
RECURSIVE BuildMap(_, _)
BuildMap(m, tbds) ==
  IF tbds = <<>> THEN m ELSE BuildMap(MapAssign(m, Head(tbds)), Tail(tbds))

EmptyMap == <<>>

\* One active call of handle_reexported_libs: its argument and the position
\* of its loop.
Frame(libs) == [libs |-> libs, i |-> 1]

Top == stack[Len(stack)]

\* The library the innermost call is looking at.
AtLib == Top.i <= Len(Top.libs)
Lib == Top.libs[Top.i]

\* The innermost call's loop moves to its next library.
Advance(st) == [st EXCEPT ![Len(st)].i = @ + 1]

---------------------------------------------------------------------------
(* Inputs.                                                                 *)

\* The identifiers of parse_tbd's two specialisations.
Archs == {"arm64-macos", "x86_64-macos"}
OtherArch(a) == IF a = "arm64-macos" THEN "x86_64-macos" ELSE "arm64-macos"

NL == "\n"
Bytes == {NL, "a"}
\* The contents of at most max bytes.
Contents(max) == {Tuple(c) : c \in UNION {[1..n -> Bytes] : n \in 0..max}}

\* The symbols of the document (or text dylib) at position i of its file.
SymOf(i) == "_sym" \o ToString(i)
WeakOf(i) == "_weak" \o ToString(i)

\* A member of "reexported-libraries", and one of "exports" or "reexports".
LibsMember(tg, libs) ==
  MkMap({<<"targets", tg>>,
         <<"libraries", Vec(Tuple([i \in 1..Len(libs) |-> Str(libs[i])]))>>})
SymsMember(tg, syms, weak) ==
  MkMap({<<"targets", tg>>,
         <<"symbols", Vec(Tuple([i \in 1..Len(syms) |-> Str(syms[i])]))>>,
         <<"weak-symbols", Vec(Tuple([i \in 1..Len(weak) |-> Str(weak[i])]))>>})

\* The document that declares text dylib t for architecture a.
DocOfTbd(t, a) ==
  LET tg == Vec(<<Str(a)>>)
  IN MkMap({<<"targets", tg>>,
            <<"install-name", Str(t.install_name)>>,
            <<"reexported-libraries", Vec(<<LibsMember(tg, t.reexported_libs)>>)>>,
            <<"exports", Vec(<<SymsMember(tg, t.exports, t.weak_exports)>>)>>})

Tbd(i, name, libs) ==
  [install_name |-> name, reexported_libs |-> libs,
   exports |-> <<SymOf(i)>>, weak_exports |-> <<WeakOf(i)>>]

\* Files for the driver: each document is for one architecture, is named
\* libQ or libR and re-exports nothing or libQ.
DriverDocParams ==
  [tg : Archs, name : {"libQ", "libR"}, libs : {<<>>, <<"libQ">>}]
DriverDocs(n) ==
  {Tuple([i \in 1..n |-> DocOfTbd(Tbd(i, f[i].name, f[i].libs), f[i].tg)]) :
     f \in [1..n -> DriverDocParams]}
\* The files of at most max documents.
DriverFiles(max) == UNION {DriverDocs(n) : n \in 0..max}

\* What parse_yaml may answer for contents c: an error at a byte offset of
\* c, or the documents of a file.
YamlResults(c) ==
  {[kind |-> "error", pos |-> p, nodes |-> <<>>] : p \in 0..Len(c)}
  \cup {[kind |-> "ok", pos |-> 0, nodes |-> d] : d \in DriverFiles(MaxDocs)}

\* Lists of text dylibs for squash: the first is libP, the others are named
\* libQ or libR; libX is in no list.
LibLists ==
  {<<>>, <<"libQ">>, <<"libR">>, <<"libP">>, <<"libQ", "libR">>,
   <<"libX", "libQ">>, <<"libX", "libR", "libX">>}
\* The install_name and reexported_libs of a non-primary text dylib.
TbdParams == [name : {"libQ", "libR"}, libs : LibLists]
\* The list of n text dylibs whose primary re-exports pl and whose i-th
\* element, i > 1, is given by f[i].
TbdList(n, pl, f) ==
  Tuple([i \in 1..n |-> IF i = 1 THEN Tbd(1, "libP", pl)
                        ELSE Tbd(i, f[i].name, f[i].libs)])

\* What reading tbds[0] of an empty span may yield when it yields anything.
GarbageTbds ==
  {TextDylib,
   [install_name |-> "?", reexported_libs |-> <<"libX">>,
    exports |-> <<"?">>, weak_exports |-> <<>>]}

---------------------------------------------------------------------------
(* The driver: parse.                                                      *)

Init ==
  /\ arch \in Archs
  /\ contents \in Contents(MaxContents)
  /\ res = [kind |-> "none", pos |-> 0]
  /\ nodes = <<>>
  /\ idx = 1
  /\ vec = <<>>
  /\ main = TextDylib
  /\ map = EmptyMap
  /\ external_libs = <<>>
  /\ stack = <<>>
  /\ ret = <<>>
  /\ diag = <<>>
  /\ pc = "start"

ParseYaml ==
  /\ pc = "start"
  /\ \E r \in YamlResults(contents) :
       /\ res' = [kind |-> r.kind, pos |-> r.pos]
       /\ nodes' = r.nodes
  /\ pc' = "parsed"
  /\ UNCHANGED <<arch, contents, idx, vec, main, map, external_libs, stack,
                 ret, diag>>

\* Fatal(ctx) << ...: the diagnostic is emitted and the process exits.
Fatal(d) ==
  /\ diag' = <<d>>
  /\ pc' = "fatal"

RECURSIVE CountNL(_, _)
\* std::count(contents.begin(), contents.begin() + pos, '\n')
CountNL(c, pos) ==
  IF pos = 0 THEN 0
  ELSE CountNL(c, pos - 1) + (IF c[pos] = NL THEN 1 ELSE 0)

\* LineNo without the step from a count of newlines to a 1-based line.
LineNoZeroBased(c, pos) == CountNL(c, pos)

\* The line number of the diagnostic for an error at byte offset pos.
LineNo(c, pos) == CountNL(c, pos) + 1

YamlErrorFatal ==
  /\ pc = "parsed"
  /\ res.kind = "error"
  /\ Fatal([msg |-> "YAML parse error", line |-> LineNo(contents, res.pos)])
  /\ UNCHANGED <<arch, contents, res, nodes, idx, vec, main, map,
                 external_libs, stack, ret>>

MalformedFatal ==
  /\ pc = "parsed"
  /\ res.kind = "ok"
  /\ Len(nodes) = 0
  /\ Fatal([msg |-> "malformed TBD file", line |-> 0])
  /\ UNCHANGED <<arch, contents, res, nodes, idx, vec, main, map,
                 external_libs, stack, ret>>

ExtractBegin ==
  /\ pc = "parsed"
  /\ res.kind = "ok"
  /\ Len(nodes) > 0
  /\ idx' = 1
  /\ vec' = <<>>
  /\ pc' = "extract"
  /\ UNCHANGED <<arch, contents, res, nodes, main, map, external_libs, stack,
                 ret, diag>>

\* One turn of parse's loop over the documents.
ExtractDoc ==
  /\ pc = "extract"
  /\ idx <= Len(nodes)
  /\ vec' = vec \o to_tbd(nodes[idx], arch)
  /\ idx' = idx + 1
  /\ UNCHANGED <<arch, contents, res, nodes, main, map, external_libs, stack,
                 ret, diag, pc>>

---------------------------------------------------------------------------
(* squash, called at the end of parse.                                     *)

\* The call of squash up to the first call of handle_reexported_libs.  The
\* moves leave the caller's vec in a moved-from state that is never read
\* again; the model keeps vec as it was.
SquashBegin ==
  /\ pc = "extract"
  /\ idx > Len(nodes)
  /\ Len(vec) > 0
  /\ main' = vec[1]
  /\ map' = BuildMap(EmptyMap, Tail(vec))
  /\ external_libs' = <<>>
  /\ stack' = <<Frame(vec[1].reexported_libs)>>
  /\ pc' = "walk"
  /\ UNCHANGED <<arch, contents, res, nodes, idx, vec, ret, diag>>

\* squash on an empty span: tbds[0] is read out of bounds, which is
\* undefined.  The run crashes or goes on with whatever was read.
SquashEmpty ==
  /\ pc = "extract"
  /\ idx > Len(nodes)
  /\ Len(vec) = 0
  /\ \/ /\ pc' = "crashed"
        /\ UNCHANGED <<main, map, external_libs, stack>>
     \/ /\ \E g \in GarbageTbds :
             /\ main' = g
             /\ stack' = <<Frame(g.reexported_libs)>>
        /\ map' = EmptyMap
        /\ external_libs' = <<>>
        /\ pc' = "walk"
  /\ UNCHANGED <<arch, contents, res, nodes, idx, vec, ret, diag>>

\* HandleResolved without the nested call: the library's symbols are
\* appended and its own re-exported libraries are not looked at.
HandleResolvedFlat ==
  /\ pc = "walk"
  /\ AtLib
  /\ Lib \in DOMAIN map
  /\ main' = [main EXCEPT !.exports = @ \o map[Lib].exports,
                          !.weak_exports = @ \o map[Lib].weak_exports]
  /\ stack' = Advance(stack)
  /\ UNCHANGED <<arch, contents, res, nodes, idx, vec, map, external_libs,
                 ret, diag, pc>>

\* HandleResolved with a guard against cycles: a library that an active
\* call is already inlining is passed over.
HandleResolvedGuarded ==
  /\ pc = "walk"
  /\ AtLib
  /\ Lib \in DOMAIN map
  /\ Len(stack) < MaxDepth
  /\ IF \E k \in 1..(Len(stack) - 1) : stack[k].libs[stack[k].i] = Lib
     THEN /\ stack' = Advance(stack)
          /\ main' = main
     ELSE /\ main' = [main EXCEPT !.exports = @ \o map[Lib].exports,
                                  !.weak_exports = @ \o map[Lib].weak_exports]
          /\ stack' = Append(stack, Frame(map[Lib].reexported_libs))
  /\ UNCHANGED <<arch, contents, res, nodes, idx, vec, map, external_libs,
                 ret, diag, pc>>

\* HandleResolved appending only the symbols main does not hold yet.
HandleResolvedDedup ==
  /\ pc = "walk"
  /\ AtLib
  /\ Lib \in DOMAIN map
  /\ Len(stack) < MaxDepth
  /\ main' = [main EXCEPT
       !.exports = @ \o SelectSeq(map[Lib].exports,
                                  LAMBDA x : x \notin Elems(main.exports)),
       !.weak_exports = @ \o SelectSeq(map[Lib].weak_exports,
                                  LAMBDA x : x \notin Elems(main.weak_exports))]
  /\ stack' = Append(stack, Frame(map[Lib].reexported_libs))
  /\ UNCHANGED <<arch, contents, res, nodes, idx, vec, map, external_libs,
                 ret, diag, pc>>

\* The library is in the map: its symbols are appended to main and
\* handle_reexported_libs is called on its re-exported libraries.
HandleResolved ==
  /\ pc = "walk"
  /\ AtLib
  /\ Lib \in DOMAIN map
  /\ Len(stack) < MaxDepth
  /\ main' = [main EXCEPT !.exports = @ \o map[Lib].exports,
                          !.weak_exports = @ \o map[Lib].weak_exports]
  /\ stack' = Append(stack, Frame(map[Lib].reexported_libs))
  /\ UNCHANGED <<arch, contents, res, nodes, idx, vec, map, external_libs,
                 ret, diag, pc>>

\* The same with no room left for another call: the recursion has no bound
\* of its own and ends when the stack is exhausted.
StackExhausted ==
  /\ pc = "walk"
  /\ AtLib
  /\ Lib \in DOMAIN map
  /\ Len(stack) >= MaxDepth
  /\ pc' = "exhausted"
  /\ UNCHANGED <<arch, contents, res, nodes, idx, vec, main, map,
                 external_libs, stack, ret, diag>>

\* HandleExternal recording a library only the first time it is met.
HandleExternalOnce ==
  /\ pc = "walk"
  /\ AtLib
  /\ Lib \notin DOMAIN map
  /\ external_libs' = IF Lib \in Elems(external_libs) THEN external_libs
                      ELSE Append(external_libs, Lib)
  /\ stack' = Advance(stack)
  /\ UNCHANGED <<arch, contents, res, nodes, idx, vec, main, map, ret, diag,
                 pc>>

\* The library is not in the map.
HandleExternal ==
  /\ pc = "walk"
  /\ AtLib
  /\ Lib \notin DOMAIN map
  /\ external_libs' = Append(external_libs, Lib)
  /\ stack' = Advance(stack)
  /\ UNCHANGED <<arch, contents, res, nodes, idx, vec, main, map, ret, diag,
                 pc>>

\* A nested call of handle_reexported_libs returns, and its caller's loop
\* goes on.
HandleReturn ==
  /\ pc = "walk"
  /\ ~AtLib
  /\ Len(stack) > 1
  /\ stack' = Advance(SubSeq(stack, 1, Len(stack) - 1))
  /\ UNCHANGED <<arch, contents, res, nodes, idx, vec, main, map,
                 external_libs, ret, diag, pc>>

\* The outermost call returns, and squash and parse return main.
SquashReturn ==
  /\ pc = "walk"
  /\ ~AtLib
  /\ Len(stack) = 1
  /\ main' = [main EXCEPT !.reexported_libs = external_libs]
  /\ ret' = <<main'>>
  /\ stack' = <<>>
  /\ pc' = "done"
  /\ UNCHANGED <<arch, contents, res, nodes, idx, vec, map, external_libs,
                 diag>>

Squash ==
  \/ SquashBegin
  \/ SquashEmpty
  \/ HandleResolved
  \/ StackExhausted
  \/ HandleExternal
  \/ HandleReturn
  \/ SquashReturn

Next ==
  \/ ParseYaml
  \/ YamlErrorFatal
  \/ MalformedFatal
  \/ ExtractBegin
  \/ ExtractDoc
  \/ Squash

Spec == Init /\ [][Next]_vars

---------------------------------------------------------------------------
(* squash on its own: parse has extracted a list of text dylibs from the   *)
(* documents that declare them and is about to call squash.                *)

InitSquash ==
  /\ arch = "arm64-macos"
  /\ contents = <<>>
  /\ \E n \in 0..MaxTbds, pl \in LibLists :
       \E f \in [2..n -> TbdParams] : vec = TbdList(n, pl, f)
  /\ nodes = IF vec = <<>>
             THEN <<DocOfTbd(Tbd(1, "libP", <<>>), OtherArch(arch))>>
             ELSE Tuple([i \in 1..Len(vec) |-> DocOfTbd(vec[i], arch)])
  /\ res = [kind |-> "ok", pos |-> 0]
  /\ idx = Len(nodes) + 1
  /\ main = TextDylib
  /\ map = EmptyMap
  /\ external_libs = <<>>
  /\ stack = <<>>
  /\ ret = <<>>
  /\ diag = <<>>
  /\ pc = "extract"

SpecSquash == InitSquash /\ [][Squash]_vars

---------------------------------------------------------------------------
(* to_tbd on its own: parse is about to extract the one document of a      *)
(* file.  The documents vary in every key to_tbd reads; the names in a     *)
(* member tell the key and the position of the member.                     *)

Tag(key, j) == "_" \o key \o ToString(j)

\* The shapes of a "targets" entry: for one architecture, for the other, and
\* a string where a vector is expected.
MemberTargets ==
  {{<<"targets", Vec(<<Str("arm64-macos")>>)>>},
   {<<"targets", Vec(<<Str("x86_64-macos")>>)>>},
   {<<"targets", Str("arm64-macos")>>}}

\* The same for a document, which may also name both architectures, have no
\* targets, or hold the architecture one level too deep.
TopTargets ==
  MemberTargets
  \cup {{<<"targets", Vec(<<Str("x86_64-macos"), Str("arm64-macos")>>)>>},
        {},
        {<<"targets", Vec(<<Vec(<<Str("arm64-macos")>>)>>)>>}}

\* A member with every key to_tbd reads, a vector among its symbols.
FullMember(tg, key, j) ==
  MkMap(tg \cup
    {<<"symbols", Vec(<<Str(Tag(key, j) \o "a"), Vec(<<>>),
                        Str(Tag(key, j) \o "b")>>)>>,
     <<"weak-symbols", Vec(<<Str(Tag(key, j) \o "w")>>)>>,
     <<"objc-classes", Vec(<<Str(Tag(key, j) \o "C"),
                             Str(Tag(key, j) \o "D")>>)>>,
     <<"objc-eh-types", Vec(<<Str(Tag(key, j) \o "E")>>)>>,
     <<"objc-ivars", Vec(<<Str(Tag(key, j) \o "C.iv")>>)>>})

\* A member with one symbol and nothing else.
PlainMember(tg, key, j) ==
  MkMap(tg \cup {<<"symbols", Vec(<<Str(Tag(key, j) \o "a")>>)>>})

\* A full member for either architecture, a plain one for the first or with
\* a string for its targets.
MemberShapes ==
  {s \in [tg : MemberTargets, full : BOOLEAN] :
     s.full <=> \E p \in s.tg : p[2].kind = "vec"}
  \cup {[tg |-> {<<"targets", Vec(<<Str("arm64-macos")>>)>>}, full |-> FALSE]}

Members(key, n) ==
  {Tuple([j \in 1..n |-> IF f[j].full THEN FullMember(f[j].tg, key, j)
                         ELSE PlainMember(f[j].tg, key, j)]) :
     f \in [1..n -> MemberShapes]}

\* The entries "exports" of at most max members.
ExportsEntries(max) ==
  {{<<"exports", Vec(ms)>>} :
     ms \in UNION {Members("exports", n) : n \in 0..max}}

ReexportsEntries ==
  {{}}
  \cup {{<<"reexports", Vec(<<FullMember(tg, "reexports", 1)>>)>>} :
          tg \in {t \in MemberTargets : \E p \in t : p[2].kind = "vec"}}

InstallNameEntries ==
  {{},
   {<<"install-name", Str("libQ")>>},
   {<<"install-name", Vec(<<Str("libQ")>>)>>}}

LibsEntry(tg, j) ==
  MkMap(tg \cup {<<"libraries", Vec(<<Str(Tag("lib", j)), Vec(<<>>)>>)>>})

ReexportedLibrariesEntries ==
  {{}}
  \cup {{<<"reexported-libraries", Vec(<<LibsEntry(t1, 1), LibsEntry(t2, 2)>>)>>} :
          t1 \in {t \in MemberTargets : \E p \in t : p[2].kind = "vec"},
          t2 \in {t \in MemberTargets : \E p \in t : p[2].kind = "str"}
                 \cup {{<<"targets", Vec(<<Str("arm64-macos")>>)>>}}}

\* The documents with at most max members under "exports", and two
\* documents that are no map.
ExtractDocs(max) ==
  {MkMap(tg \cup nm \cup rl \cup ex \cup rx) :
     tg \in TopTargets, nm \in InstallNameEntries,
     rl \in ReexportedLibrariesEntries, ex \in ExportsEntries(max),
     rx \in ReexportsEntries}
  \cup {Str("arm64-macos"), Vec(<<Str("arm64-macos")>>)}

InitExtract ==
  /\ arch \in Archs
  /\ contents = <<>>
  /\ nodes \in {<<d>> : d \in ExtractDocs(MaxMembers)}
  /\ res = [kind |-> "ok", pos |-> 0]
  /\ idx = 1
  /\ vec = <<>>
  /\ main = TextDylib
  /\ map = EmptyMap
  /\ external_libs = <<>>
  /\ stack = <<>>
  /\ ret = <<>>
  /\ diag = <<>>
  /\ pc = "extract"

SpecExtract == InitExtract /\ [][ExtractDoc]_vars

---------------------------------------------------------------------------
(* What the claims say of a document, read off the node tree itself.       *)

\* The vector under a key of a map node, empty when there is none.
Field(n, key) ==
  IF n.kind = "map" /\ key \in DOMAIN n.map /\ n.map[key].kind = "vec"
  THEN n.map[key].vec ELSE <<>>

\* The strings among the members of a vector of nodes, in order.
ScalarsOf(v) ==
  LET keep == SelectSeq(v, LAMBDA n : n.kind = "str")
  IN [i \in 1..Len(keep) |-> keep[i].str]

\* The node's targets hold the architecture as a scalar member.
HasArch(n, a) ==
  \E i \in 1..Len(Field(n, "targets")) :
     Field(n, "targets")[i] = Str(a)

RECURSIVE ConcatAll(_)
ConcatAll(ss) == IF ss = <<>> THEN <<>> ELSE Head(ss) \o ConcatAll(Tail(ss))

\* The export names one member stands for, by position: its symbols, then
\* two names per class, then the exception types, then the ivars.
MemberBlock(m) ==
  LET S == ScalarsOf(Field(m, "symbols"))
      C == ScalarsOf(Field(m, "objc-classes"))
      E == ScalarsOf(Field(m, "objc-eh-types"))
      I == ScalarsOf(Field(m, "objc-ivars"))
      s == Len(S)
      c == s + 2 * Len(C)
      e == c + Len(E)
  IN [i \in 1..(e + Len(I)) |->
        IF i <= s THEN S[i]
        ELSE IF i <= c
             THEN IF (i - s) % 2 = 1
                  THEN "_OBJC_CLASS_$_" \o C[(i - s + 1) \div 2]
                  ELSE "_OBJC_METACLASS_$_" \o C[(i - s) \div 2]
             ELSE IF i <= e THEN "_OBJC_EHTYPE_$_" \o E[i - c]
                  ELSE "_OBJC_IVAR_$_" \o I[i - e]]

\* The members of a document that are for architecture a: those under
\* "exports" first, those under "reexports" after them.
MatchingMembers(d, a) ==
  SelectSeq(Field(d, "exports") \o Field(d, "reexports"),
            LAMBDA m : HasArch(m, a))

\* The one document of the file has been through to_tbd.
Extracted == pc = "extract" /\ idx = 2 /\ Len(nodes) = 1

\* C5: to_tbd yields nothing exactly when the document's targets do not
\* hold the architecture as a scalar member; when it yields a text dylib, a
\* member of reexported-libraries, exports or reexports whose targets hold
\* the architecture has all its names in the result, and a member whose
\* targets do not has none of them there.
C5_ExtractionFiltersByArch ==
  Extracted =>
    LET d == nodes[1]
    IN /\ (vec = <<>>) <=> ~HasArch(d, arch)
       /\ vec # <<>> =>
            LET t == vec[1]
                names == Elems(t.exports) \cup Elems(t.weak_exports)
                mems == Field(d, "exports") \o Field(d, "reexports")
                libs == Field(d, "reexported-libraries")
            IN /\ \A j \in 1..Len(mems) :
                    LET own == Elems(MemberBlock(mems[j]))
                        weak == Elems(ScalarsOf(Field(mems[j], "weak-symbols")))
                    IN IF HasArch(mems[j], arch)
                       THEN /\ own \subseteq Elems(t.exports)
                            /\ weak \subseteq Elems(t.weak_exports)
                       ELSE (own \cup weak) \cap names = {}
               /\ \A j \in 1..Len(libs) :
                    LET own == Elems(ScalarsOf(Field(libs[j], "libraries")))
                    IN IF HasArch(libs[j], arch)
                       THEN own \subseteq Elems(t.reexported_libs)
                       ELSE own \cap Elems(t.reexported_libs) = {}

\* A document for the architecture was extracted that has a member for it
\* and a member for the other one, under exports and reexported-libraries.
C5_Witness ==
  /\ Extracted
  /\ vec # <<>>
  /\ \E i, j \in 1..Len(Field(nodes[1], "exports")) :
       /\ HasArch(Field(nodes[1], "exports")[i], arch)
       /\ ~HasArch(Field(nodes[1], "exports")[j], arch)
  /\ \E i, j \in 1..Len(Field(nodes[1], "reexported-libraries")) :
       /\ HasArch(Field(nodes[1], "reexported-libraries")[i], arch)
       /\ ~HasArch(Field(nodes[1], "reexported-libraries")[j], arch)

\* C7: the exports of an extracted document are, for each member for the
\* architecture, those under "exports" before those under "reexports", the
\* member's symbols, then _OBJC_CLASS_$_s and _OBJC_METACLASS_$_s for each
\* class s, then _OBJC_EHTYPE_$_s for each exception type, then
\* _OBJC_IVAR_$_s for each ivar; the weak symbols are in weak_exports, in
\* the same member order, and in exports nowhere.
C7_ExportOrder ==
  Extracted /\ vec # <<>> =>
    LET ms == MatchingMembers(nodes[1], arch)
    IN /\ vec[1].exports = ConcatAll([j \in 1..Len(ms) |-> MemberBlock(ms[j])])
       /\ vec[1].weak_exports =
            ConcatAll([j \in 1..Len(ms) |->
                         ScalarsOf(Field(ms[j], "weak-symbols"))])
       /\ Elems(vec[1].weak_exports) \cap Elems(vec[1].exports) = {}

\* Extracted: a document with a full member for the architecture under
\* "exports" and another under "reexports".
C7_Witness ==
  /\ Extracted
  /\ vec # <<>>
  /\ \E i \in 1..Len(Field(nodes[1], "exports")) :
       /\ HasArch(Field(nodes[1], "exports")[i], arch)
       /\ Len(Field(Field(nodes[1], "exports")[i], "objc-classes")) = 2
  /\ \E i \in 1..Len(Field(nodes[1], "reexports")) :
       HasArch(Field(nodes[1], "reexports")[i], arch)
  /\ Len(vec[1].exports) >= 12
  /\ Len(vec[1].weak_exports) >= 2

---------------------------------------------------------------------------
(* What the claims say of a list of text dylibs, read off the list vec     *)
(* that squash was called with.                                            *)

\* The positions of the text dylibs other than the main one.
NonPrimary == 2..Len(vec)

InstallNames == {vec[i].install_name : i \in NonPrimary}

\* The text dylibs an install name may stand for.
NamedBy(libs) == {i \in NonPrimary : vec[i].install_name \in Elems(libs)}

\* No later text dylib of the list has the same install name.
Live(i) ==
  \A j \in NonPrimary : j > i => vec[j].install_name # vec[i].install_name

\* The last text dylib of the list with the install name.
LastNamed(name) ==
  CHOOSE i \in NonPrimary : vec[i].install_name = name /\ Live(i)

\* The text dylibs reached from the main one through re-exported names,
\* a name standing for every text dylib that has it.
RECURSIVE ReachAll(_, _)
ReachAll(I, n) ==
  IF n = 0 THEN I
  ELSE ReachAll(I \cup UNION {NamedBy(vec[i].reexported_libs) : i \in I},
                n - 1)
ReachableAll == ReachAll(NamedBy(vec[1].reexported_libs), Len(vec))

\* The same, a name standing for the last text dylib that has it.
RECURSIVE ReachLive(_, _)
ReachLive(I, n) ==
  IF n = 0 THEN I
  ELSE ReachLive(
         I \cup {j \in UNION {NamedBy(vec[i].reexported_libs) : i \in I} :
                   Live(j)},
         n - 1)
Reachable ==
  ReachLive({j \in NamedBy(vec[1].reexported_libs) : Live(j)}, Len(vec))

\* Every name the depth-first walk from a list of re-exported libraries
\* meets, in the order it meets them, to a depth of n.
RECURSIVE Met(_, _)
Met(libs, n) ==
  IF libs = <<>> \/ n = 0 THEN <<>>
  ELSE <<Head(libs)>>
       \o (IF Head(libs) \in InstallNames
           THEN Met(vec[LastNamed(Head(libs))].reexported_libs, n - 1)
           ELSE <<>>)
       \o Met(Tail(libs), n)
MetFromMain == Met(vec[1].reexported_libs, MaxDepth)

\* The number of re-export paths from a list of re-exported libraries to a
\* name, to a depth of n.
RECURSIVE PathsTo(_, _, _)
PathsTo(libs, name, n) ==
  IF libs = <<>> \/ n = 0 THEN 0
  ELSE (IF Head(libs) = name THEN 1 ELSE 0)
       + (IF Head(libs) \in InstallNames
          THEN PathsTo(vec[LastNamed(Head(libs))].reexported_libs, name, n - 1)
          ELSE 0)
       + PathsTo(Tail(libs), name, n)
Paths(name) == PathsTo(vec[1].reexported_libs, name, MaxDepth)

Count(x, s) == Cardinality({i \in 1..Len(s) : s[i] = x})

\* squash was called with a main text dylib and has returned.
Squashed == pc = "done" /\ vec # <<>>

\* C1 as stated: the result holds the exports and weak exports of every
\* text dylib reachable from the main one through re-exported names that
\* are install names of other text dylibs of the list.
C1_ClosureOfEveryNamed ==
  Squashed =>
    \A i \in ReachableAll :
      /\ Elems(vec[i].exports) \subseteq Elems(ret[1].exports)
      /\ Elems(vec[i].weak_exports) \subseteq Elems(ret[1].weak_exports)

\* C1, amended: the same where an install name that several text dylibs of
\* the list have stands for the last of them.
C1_ClosureInlined ==
  Squashed =>
    \A i \in Reachable :
      /\ Elems(vec[i].exports) \subseteq Elems(ret[1].exports)
      /\ Elems(vec[i].weak_exports) \subseteq Elems(ret[1].weak_exports)

\* squash returned for a list where the main text dylib re-exports one that
\* re-exports another, which the main one does not name.
C1_Witness ==
  /\ Squashed
  /\ \E i, j \in Reachable :
       /\ vec[i].install_name \in Elems(vec[1].reexported_libs)
       /\ vec[j].install_name \in Elems(vec[i].reexported_libs)
       /\ vec[j].install_name \notin Elems(vec[1].reexported_libs)
       /\ Elems(vec[j].exports) \subseteq Elems(ret[1].exports)
       /\ vec[j].exports # <<>>

\* C2: the re-exported libraries of the result are the names the walk met
\* that are the install name of no other text dylib of the list, each as
\* often and in the order it was met; and such a name brings no symbol:
\* every symbol of the result is the main text dylib's or an inlined one's.
C2_ExternalPassthrough ==
  Squashed =>
    /\ \A k \in 1..Len(ret[1].reexported_libs) :
         ret[1].reexported_libs[k] \notin InstallNames
    /\ ret[1].reexported_libs =
         SelectSeq(MetFromMain, LAMBDA x : x \notin InstallNames)
    /\ Elems(ret[1].exports) \subseteq
         Elems(vec[1].exports)
         \cup UNION {Elems(vec[i].exports) : i \in Reachable}
    /\ Elems(ret[1].weak_exports) \subseteq
         Elems(vec[1].weak_exports)
         \cup UNION {Elems(vec[i].weak_exports) : i \in Reachable}

\* squash returned a name it met in the main text dylib and then again, in
\* an inlined text dylib that the main one re-exports.
C2_Witness ==
  /\ Squashed
  /\ vec[1].reexported_libs = <<"libX", "libQ">>
  /\ \E i \in Reachable : "libX" \in Elems(vec[i].reexported_libs)
  /\ Len(ret[1].reexported_libs) >= 2
  /\ Count("libX", ret[1].reexported_libs) >= 2

\* Two text dylibs the walk inlines re-export each other.
MutualReexport ==
  /\ vec # <<>>
  /\ \E i, j \in Reachable :
       /\ i # j
       /\ vec[j].install_name \in Elems(vec[i].reexported_libs)
       /\ vec[i].install_name \in Elems(vec[j].reexported_libs)

\* C8: when two text dylibs that the walk reaches re-export each other,
\* squash returns nothing, however far the run goes.
C8_CycleNeverReturns ==
  MutualReexport => pc # "done" /\ ret = <<>>

\* The walk ran until the stack was exhausted, inlining one text dylib
\* three times over.
C8_Witness ==
  /\ MutualReexport
  /\ pc = "exhausted"
  /\ \E i \in Reachable : Count(vec[i].exports[1], main.exports) >= 3

\* C9: the map holds, under each install name, the last text dylib of the
\* list that has it; squash returns no symbol of an earlier one, and the
\* symbols of the last one when the main text dylib re-exports the name.
\* (In these lists no two text dylibs share a symbol.)
C9_LastWriteWins ==
  (pc \in {"walk", "exhausted", "done"} /\ vec # <<>>) =>
    /\ DOMAIN map = InstallNames
    /\ \A i \in NonPrimary : map[vec[i].install_name] = vec[LastNamed(vec[i].install_name)]
    /\ pc = "done" =>
         \A i \in NonPrimary :
           IF Live(i)
           THEN vec[i].install_name \in Elems(vec[1].reexported_libs) =>
                  /\ Elems(vec[i].exports) \subseteq Elems(ret[1].exports)
                  /\ Elems(vec[i].weak_exports) \subseteq Elems(ret[1].weak_exports)
           ELSE /\ Elems(vec[i].exports) \cap Elems(ret[1].exports) = {}
                /\ Elems(vec[i].weak_exports) \cap Elems(ret[1].weak_exports) = {}

\* squash returned for a list where two text dylibs have the install name
\* that the main one re-exports, and a third is re-exported by the first of
\* the two only.
C9_Witness ==
  /\ Squashed
  /\ \E i, j \in NonPrimary :
       /\ i < j
       /\ vec[i].install_name = vec[j].install_name
       /\ vec[i].install_name \in Elems(vec[1].reexported_libs)
       /\ vec[i].reexported_libs # vec[j].reexported_libs
       /\ Elems(vec[j].exports) \subseteq Elems(ret[1].exports)

\* C10: the exports of the result are the main text dylib's own, then those
\* of each inlined text dylib once per time the walk met its name, in the
\* order of the walk, and the same for the weak exports; so the symbols of
\* a text dylib are there once per re-export path to it, and a name that is
\* no install name is among the re-exported libraries once per path to it.
C10_NoDedup ==
  Squashed =>
    LET inlined == SelectSeq(MetFromMain, LAMBDA x : x \in InstallNames)
    IN /\ ret[1].exports =
            vec[1].exports
            \o ConcatAll([k \in 1..Len(inlined) |->
                            vec[LastNamed(inlined[k])].exports])
       /\ ret[1].weak_exports =
            vec[1].weak_exports
            \o ConcatAll([k \in 1..Len(inlined) |->
                            vec[LastNamed(inlined[k])].weak_exports])
       /\ \A i \in NonPrimary :
            Live(i) =>
              /\ \A x \in Elems(vec[i].exports) :
                   Count(x, ret[1].exports) = Paths(vec[i].install_name)
              /\ \A x \in Elems(vec[i].weak_exports) :
                   Count(x, ret[1].weak_exports) = Paths(vec[i].install_name)
       /\ \A x \in Elems(MetFromMain) \ InstallNames :
            Count(x, ret[1].reexported_libs) = Paths(x)

\* squash returned for a list where the main text dylib re-exports two
\* others, one of which re-exports the other: the symbols of the latter are
\* in the result twice.
C10_Witness ==
  /\ Squashed
  /\ \E i, j \in Reachable :
       /\ i # j
       /\ vec[1].reexported_libs = <<vec[i].install_name, vec[j].install_name>>
       /\ vec[j].install_name \in Elems(vec[i].reexported_libs)
       /\ Paths(vec[j].install_name) = 2
       /\ Count(vec[j].exports[1], ret[1].exports) = 2
       /\ Count(vec[j].weak_exports[1], ret[1].weak_exports) = 2

---------------------------------------------------------------------------
(* What the claims say of the driver.                                      *)

\* The newlines among the first pos bytes of the contents.
NewlinesBefore(pos) == Cardinality({i \in 1..pos : contents[i] = NL})

\* C6: after a YAML error at byte offset pos the diagnostic names the line
\* 1 + (newlines among the first pos bytes), and the run has ended there:
\* nothing was extracted, merged or returned; and a file of no documents
\* gets the malformed-TBD diagnostic and reaches neither step.
C6_FatalDiagnostics ==
  /\ res.kind = "error" =>
       /\ pc \in {"parsed", "fatal"}
       /\ nodes = <<>> /\ vec = <<>> /\ stack = <<>> /\ ret = <<>>
       /\ pc = "fatal" =>
            diag = <<[msg |-> "YAML parse error",
                      line |-> 1 + NewlinesBefore(res.pos)]>>
  /\ (res.kind = "ok" /\ Len(nodes) = 0) =>
       /\ pc \in {"parsed", "fatal"}
       /\ vec = <<>> /\ stack = <<>> /\ ret = <<>>
       /\ pc = "fatal" => diag = <<[msg |-> "malformed TBD file", line |-> 0]>>
  /\ pc = "fatal" => res.kind = "error" \/ Len(nodes) = 0

\* The fatal diagnostic for an error just after the third newline of the
\* contents: line 4.
C6_Witness ==
  /\ pc = "fatal"
  /\ res.kind = "error"
  /\ res.pos = 3
  /\ NewlinesBefore(res.pos) = 3
  /\ diag[1].line = 4

\* C3 as stated: a file of at least one document never fails; squash is
\* called with a list that has a first element.
C3_DriverAlwaysMerges ==
  /\ pc # "crashed"
  /\ (pc = "extract" /\ idx > Len(nodes)) => Len(vec) >= 1

\* C4 as stated: when parse returns for a file of several documents, the
\* main text dylib is the one of document 0: the result has its install
\* name and begins with its exports and weak exports.
C4_PrimaryIsDocumentZero ==
  (pc = "done" /\ Len(nodes) >= 2 /\ vec # <<>>) =>
    LET doc0 == to_tbd(nodes[1], arch)
    IN /\ doc0 # <<>>
       /\ ret[1].install_name = doc0[1].install_name
       /\ SubSeq(ret[1].exports, 1, Len(doc0[1].exports)) = doc0[1].exports
       /\ SubSeq(ret[1].weak_exports, 1, Len(doc0[1].weak_exports))
            = doc0[1].weak_exports

=============================================================================
